---- MODULE Spec2Model ----
(***************************************************************************)
(* Model of src/lib/mongodb.ts: a process-wide cached Mongoose connection. *)
(*                                                                         *)
(* The process is a single-threaded JavaScript runtime.  A synchronous     *)
(* stretch of code (module evaluation, the part of connectToDatabase up to *)
(* its await, the part after it) is one atomic action.  Promises are       *)
(* modelled with their state, value and reaction lists, and settled        *)
(* promises schedule their reactions on a FIFO microtask queue.            *)
(***************************************************************************)
EXTENDS Integers, Sequences, FiniteSets, TLC

\* ---- bounds ----
MaxCalls == 3         \* connectToDatabase() invocations per process
MaxLoads == 2         \* evaluations of the module (first load + hot reloads)
MaxNativeCalls == 2   \* getMongoNativeConnection() invocations
NumHandles == 2       \* distinct Mongoose instances a handshake may yield
NumErrors == 2        \* distinct errors a handshake may fail with

Calls == 1..MaxCalls

\* ---- values ----
Null == [kind |-> "null", id |-> 0]
Handles == {[kind |-> "mongoose", id |-> i] : i \in 1..NumHandles}
Errors == {[kind |-> "error", id |-> i] : i \in 1..NumErrors}

\* process.env.MONGO_URI: undefined, the empty string, or a non-empty string
\* (len is 0 for the empty string and 1 for any other)
EnvValues == {[defined |-> FALSE, len |-> 0]} \cup
             {[defined |-> TRUE, len |-> n] : n \in {0, 1}}

\* the `connection` property of a Mongoose instance (line 93)
ConnectionOf(h) == [kind |-> "connection", id |-> h.id]

VARIABLES
  env,          \* value of process.env.MONGO_URI
  global,       \* global.mongoose: 0 (undefined) or a reference into heap
  heap,         \* the MongooseCache objects ever allocated
  modules,      \* per successful module evaluation, its `cached` reference
  failedLoads,  \* number of module evaluations that threw
  handshakes,   \* one record per mongoose.connect() invocation
  calls,        \* per connectToDatabase() invocation, its frame
  microtasks,   \* FIFO queue of promise reaction jobs
  nativeRet,    \* value returned by the last getMongoNativeConnection()
  nativeCalls   \* number of getMongoNativeConnection() invocations

vars == <<env, global, heap, modules, failedLoads, handshakes, calls,
          microtasks, nativeRet, nativeCalls>>

PendingPromise == [state |-> "pending", value |-> Null]

\* lines 43-46: the object literal { conn: null, promise: null }
\* (promise is 0 for null, else the index of the handshake whose
\*  .then() promise it holds)
EmptyCache == [conn |-> Null, promise |-> 0]

\* frame of a connectToDatabase() invocation: where it stands, which module
\* evaluation's closure it runs, the promise it awaits, whether that promise
\* had already settled when the await was reached, and its outcome
IdleCall ==
  [pc |-> "idle", module |-> 0, awaiting |-> 0, sawSettled |-> FALSE,
   result |-> Null]

\* variant of line 10 that only rejects the empty string
MissingUri_EmptyOnly(uri) == uri.defined /\ uri.len = 0

\* line 10: !MONGODB_URI  (undefined and the empty string are both falsy)
MissingUri(uri) == ~uri.defined \/ uri.len = 0

\* variant of line 43 that ignores the global object
CachedRef_AlwaysFresh(g, fresh) == fresh

\* line 43: globalForMongoose.mongoose ?? { ... }
CachedRef(g, fresh) == IF g # 0 THEN g ELSE fresh

\* variant without line 49
GlobalAfterLoad_NotStored(g, ref) == g

\* line 49: globalForMongoose.mongoose = cached
GlobalAfterLoad(g, ref) == ref

\* line 61: if (cached.conn)
ConnCached(cache) == cache.conn # Null

\* variants of line 66: no check, and a check of conn in place of promise
NeedHandshake_Always(cache) == TRUE

NeedHandshake_OnConn(cache) == cache.conn = Null

\* line 66: if (!cached.promise)
NeedHandshake(cache) == cache.promise = 0

\* lines 73-75: the callback passed to .then()
ThenCallback(mongooseInstance) == mongooseInstance

\* lines 73-75: state of the promise returned by .then(cb) once the
\* mongoose.connect() promise p has settled
ThenSettled(p) ==
  IF p.state = "fulfilled"
    THEN [state |-> "fulfilled", value |-> ThenCallback(p.value)]
    ELSE [state |-> "rejected", value |-> p.value]

\* variants of line 79: one clears the promise when the await throws, one
\* stores whatever the promise settled with
ResumeCache_ResetOnFailure(cache, p) ==
  IF p.state = "fulfilled" THEN [cache EXCEPT !.conn = p.value]
                           ELSE [cache EXCEPT !.promise = 0]

ResumeCache_StoreAny(cache, p) == [cache EXCEPT !.conn = p.value]

\* variant of line 79 that drops the promise once its result is stored
ResumeCache_ClearOnSuccess(cache, p) ==
  IF p.state = "fulfilled" THEN [cache EXCEPT !.conn = p.value, !.promise = 0]
                           ELSE cache

\* line 79: cached.conn = await cached.promise, resumed with settled promise p;
\* the assignment is skipped when the await throws
ResumeCache(cache, p) ==
  IF p.state = "fulfilled" THEN [cache EXCEPT !.conn = p.value] ELSE cache

\* variant of lines 79-81 that catches the rejection and returns cached.conn
ResumeCall_Swallow(call, cache, p) ==
  [call EXCEPT !.pc = "done", !.result = cache.conn]

\* lines 79-81: how the call ends once resumed: returns cached.conn, or
\* ends with the rejection reason thrown by the await
ResumeCall(call, cache, p) ==
  IF p.state = "fulfilled"
    THEN [call EXCEPT !.pc = "done", !.result = cache.conn]
    ELSE [call EXCEPT !.pc = "failed", !.result = p.value]

\* variant of line 93 that returns cached.conn itself
NativeConnection_NoField(cache) ==
  IF ~ConnCached(cache) THEN Null ELSE cache.conn

\* lines 89-93: body of getMongoNativeConnection
NativeConnection(cache) ==
  IF ~ConnCached(cache) THEN Null ELSE ConnectionOf(cache.conn)

\* variant of lines 89-93 that assigns where line 89 compares
NativeCacheEffect_Assigns(cache) == [cache EXCEPT !.conn = Null]

\* lines 89-93: what the body of getMongoNativeConnection leaves in the
\* cache: it only reads cached.conn
NativeCacheEffect(cache) == cache

\* line 73: mongoose.connect(...).then(...): a new handshake, its promise and
\* the derived promise, on which awaiting calls register as reactions
NewHandshake ==
  [connect |-> PendingPromise, derived |-> PendingPromise, reactions |-> <<>>]

ThenJob(h) == [type |-> "then", id |-> h]
ResumeJob(c) == [type |-> "resume", id |-> c]

\* variant in which only the first awaiting call is resumed
ResumeJobs_OnlyFirst(cs) ==
  IF cs = <<>> THEN <<>> ELSE <<ResumeJob(Head(cs))>>

\* the reaction jobs of the calls registered on a promise, in the order of
\* their registration (line 79)
RECURSIVE ResumeJobs(_)
ResumeJobs(cs) ==
  IF cs = <<>> THEN <<>> ELSE <<ResumeJob(Head(cs))>> \o ResumeJobs(Tail(cs))

Init ==
  /\ env \in EnvValues
  /\ global = 0
  /\ heap = <<>>
  /\ modules = <<>>
  /\ failedLoads = 0
  /\ handshakes = <<>>
  /\ calls = [c \in Calls |-> IdleCall]
  /\ microtasks = <<>>
  /\ nativeRet = Null
  /\ nativeCalls = 0

\* lines 8-12: module evaluation with the URI missing throws before the
\* cache is looked up or created
LoadModuleThrows ==
  /\ Len(modules) + failedLoads < MaxLoads
  /\ MissingUri(env)
  /\ failedLoads' = failedLoads + 1
  /\ UNCHANGED <<env, global, heap, modules, handshakes, calls, microtasks,
                 nativeRet, nativeCalls>>

\* lines 8-49: module evaluation with the URI present
LoadModule ==
  /\ Len(modules) + failedLoads < MaxLoads
  /\ ~MissingUri(env)
  /\ LET ref == CachedRef(global, Len(heap) + 1)
     IN /\ heap' = IF ref > Len(heap) THEN Append(heap, EmptyCache) ELSE heap
        /\ modules' = Append(modules, ref)
        /\ global' = GlobalAfterLoad(global, ref)
  /\ UNCHANGED <<env, failedLoads, handshakes, calls, microtasks,
                 nativeRet, nativeCalls>>

\* lines 59-79: connectToDatabase() of module evaluation m, from its entry up
\* to the early return or to the suspension at the await; c numbers the
\* invocations in the order they are made
ConnectToDatabase(c, m) ==
  /\ calls[c].pc = "idle"
  /\ \A b \in 1..(c - 1) : calls[b].pc # "idle"
  /\ m \in 1..Len(modules)
  /\ LET r == modules[m]
         cache == heap[r]
     IN IF ConnCached(cache)
          THEN /\ calls' = [calls EXCEPT ![c] =
                    [pc |-> "done", module |-> m, awaiting |-> 0,
                     sawSettled |-> FALSE, result |-> cache.conn]]
               /\ UNCHANGED <<heap, handshakes, microtasks>>
          ELSE LET start == NeedHandshake(cache)
                   hs == IF start THEN Append(handshakes, NewHandshake)
                                  ELSE handshakes
                   p == IF start THEN Len(hs) ELSE cache.promise
                   settled == hs[p].derived.state # "pending"
               IN /\ heap' = [heap EXCEPT ![r].promise = p]
                  /\ handshakes' =
                       IF settled THEN hs
                       ELSE [hs EXCEPT ![p].reactions = Append(@, c)]
                  /\ microtasks' =
                       IF settled THEN Append(microtasks, ResumeJob(c))
                       ELSE microtasks
                  /\ calls' = [calls EXCEPT ![c] =
                       [pc |-> "await", module |-> m, awaiting |-> p,
                        sawSettled |-> settled, result |-> Null]]
  /\ UNCHANGED <<env, global, modules, failedLoads, nativeRet, nativeCalls>>

\* line 73: the promise of mongoose.connect() settles, with a Mongoose
\* instance or with an error; its .then() reaction is queued
HandshakeSettles(h, v) ==
  /\ h \in 1..Len(handshakes)
  /\ handshakes[h].connect.state = "pending"
  /\ handshakes' = [handshakes EXCEPT ![h].connect =
       [state |-> IF v \in Handles THEN "fulfilled" ELSE "rejected",
        value |-> v]]
  /\ microtasks' = Append(microtasks, ThenJob(h))
  /\ UNCHANGED <<env, global, heap, modules, failedLoads, calls,
                 nativeRet, nativeCalls>>

\* lines 73-75: the .then() reaction runs; the derived promise (the one held
\* in cached.promise) settles and the calls awaiting it are queued in order
RunThen ==
  /\ microtasks # <<>>
  /\ Head(microtasks).type = "then"
  /\ LET h == Head(microtasks).id
     IN /\ handshakes' = [handshakes EXCEPT
             ![h].derived = ThenSettled(handshakes[h].connect),
             ![h].reactions = <<>>]
        /\ microtasks' = Tail(microtasks) \o ResumeJobs(handshakes[h].reactions)
  /\ UNCHANGED <<env, global, heap, modules, failedLoads, calls,
                 nativeRet, nativeCalls>>

\* lines 79-81: a suspended connectToDatabase() resumes after its await
Resume ==
  /\ microtasks # <<>>
  /\ Head(microtasks).type = "resume"
  /\ LET c == Head(microtasks).id
         r == modules[calls[c].module]
         p == handshakes[calls[c].awaiting].derived
         cache == ResumeCache(heap[r], p)
     IN /\ heap' = [heap EXCEPT ![r] = cache]
        /\ calls' = [calls EXCEPT ![c] = ResumeCall(@, cache, p)]
  /\ microtasks' = Tail(microtasks)
  /\ UNCHANGED <<env, global, modules, failedLoads, handshakes,
                 nativeRet, nativeCalls>>

\* lines 88-94: getMongoNativeConnection() of module evaluation m
GetMongoNativeConnection(m) ==
  /\ nativeCalls < MaxNativeCalls
  /\ m \in 1..Len(modules)
  /\ nativeRet' = NativeConnection(heap[modules[m]])
  /\ nativeCalls' = nativeCalls + 1
  /\ heap' = [heap EXCEPT ![modules[m]] = NativeCacheEffect(@)]
  /\ UNCHANGED <<env, global, modules, failedLoads, handshakes, calls,
                 microtasks>>

Next ==
  \/ LoadModuleThrows
  \/ LoadModule
  \/ \E c \in Calls, m \in 1..MaxLoads : ConnectToDatabase(c, m)
  \/ \E h \in 1..MaxCalls, v \in Handles \cup Errors : HandshakeSettles(h, v)
  \/ RunThen
  \/ Resume
  \/ \E m \in 1..MaxLoads : GetMongoNativeConnection(m)

Spec == Init /\ [][Next]_vars

\* The runtime drains the microtask queue, so a queued reaction does run; a
\* handshake that settles at all is the assumption on mongoose.connect.
FairSpec ==
  /\ Spec
  /\ WF_vars(RunThen)
  /\ WF_vars(Resume)
  /\ \A h \in 1..MaxCalls :
       WF_vars(\E v \in Handles \cup Errors : HandshakeSettles(h, v))

\* ---- vocabulary of the properties ----
Started(c) == calls[c].pc # "idle"
Done(c) == calls[c].pc = "done"
Failed(c) == calls[c].pc = "failed"
Completed(c) == Done(c) \/ Failed(c)
Awaited(c) == calls[c].awaiting # 0
Caches == 1..Len(heap)
\* the promise held in cache r has been rejected
Poisoned(r) ==
  heap[r].promise # 0 /\ handshakes[heap[r].promise].derived.state = "rejected"

\* C1: however many connectToDatabase() calls have been issued, in whatever
\* interleaving, mongoose.connect has been invoked exactly once as soon as one
\* call has been issued, and never more than once.
C1_HandshakeExactlyOnce ==
  /\ Len(handshakes) <= 1
  /\ (\E c \in Calls : Started(c)) => Len(handshakes) = 1

\* C1 witness: every call was issued before the handshake resolved and all of
\* them are suspended on the one handshake.
C1_Witness ==
  /\ \A c \in Calls : calls[c].pc = "await" /\ ~calls[c].sawSettled
  /\ Len(handshakes) = 1
  /\ handshakes[1].connect.state = "pending"

\* C2: once a connectToDatabase() call has completed successfully, no step
\* starts a handshake and every call that is complete afterwards returned the
\* very handle that call returned.
C2_SameHandleNoNewIO ==
  [][\A c \in Calls : Done(c) =>
       /\ Len(handshakes') = Len(handshakes)
       /\ \A d \in Calls :
            calls'[d].pc = "done" => calls'[d].result = calls[c].result]_vars

\* C2 witness: a call that suspended has returned a handle and a later call
\* has returned through the early return of line 62.
C2_Witness ==
  \E c, d \in Calls :
    /\ Done(c) /\ Awaited(c)
    /\ Done(d) /\ ~Awaited(d)
    /\ calls[d].result \in Handles

\* C3: the calls suspended on a pending operation all await the operation
\* held in the cache, and the calls that awaited end alike: all with the same
\* handle or all with the same failure; no two calls return different handles.
C3_SharedOutcome ==
  /\ \A c \in Calls :
       calls[c].pc = "await" =>
         calls[c].awaiting = heap[modules[calls[c].module]].promise
  /\ \A c, d \in Calls :
       (Awaited(c) /\ Awaited(d)) => calls[c].awaiting = calls[d].awaiting
  /\ \A c, d \in Calls :
       (Completed(c) /\ Completed(d) /\ Awaited(c) /\ Awaited(d)) =>
         calls[c].pc = calls[d].pc /\ calls[c].result = calls[d].result
  /\ \A c, d \in Calls :
       (Done(c) /\ Done(d)) => calls[c].result = calls[d].result

\* C3 witness: two calls that found the operation outstanding have both
\* returned.
C3_Witness ==
  \E c, d \in Calls :
    /\ c # d
    /\ Done(c) /\ Awaited(c) /\ ~calls[c].sawSettled
    /\ Done(d) /\ Awaited(d) /\ ~calls[d].sawSettled

C5_NativeHandle ==
  [][\A m \in 1..MaxLoads :
       GetMongoNativeConnection(m) =>
         IF \E c \in Calls : Done(c)
           THEN \A c \in Calls :
                  Done(c) => nativeRet' = ConnectionOf(calls[c].result)
           ELSE nativeRet' = Null]_vars

\* C5 witness: getMongoNativeConnection() was called while the handshake was
\* in flight and again after a call succeeded, and returned a connection.
C5_Witness ==
  /\ nativeCalls >= 2
  /\ nativeRet.kind = "connection"
  /\ \E c \in Calls : Done(c) /\ nativeRet = ConnectionOf(calls[c].result)

\* C6: a failure of the handshake reaches every call awaiting the shared
\* operation: the awaited promise is rejected with the handshake's error, a
\* call that awaited it and is complete has failed with that error (it
\* returned neither a handle nor null), and a call still suspended on it has
\* its resumption queued.
C6_FailurePropagates ==
  /\ \A h \in 1..Len(handshakes) :
       (handshakes[h].connect.state = "rejected"
          /\ handshakes[h].derived.state # "pending") =>
         /\ handshakes[h].derived.state = "rejected"
         /\ handshakes[h].derived.value = handshakes[h].connect.value
  /\ \A c \in Calls :
       (Awaited(c)
          /\ handshakes[calls[c].awaiting].derived.state = "rejected") =>
         /\ ~Done(c)
         /\ Failed(c) =>
              /\ calls[c].result = handshakes[calls[c].awaiting].connect.value
              /\ calls[c].result \in Errors
         /\ calls[c].pc = "await" =>
              \E i \in 1..Len(microtasks) : microtasks[i] = ResumeJob(c)

\* C6 witness: the handshake failed and two calls that were suspended on it
\* have failed.
C6_Witness ==
  \E c, d \in Calls :
    /\ c # d
    /\ Failed(c) /\ ~calls[c].sawSettled
    /\ Failed(d) /\ ~calls[d].sawSettled
    /\ handshakes[calls[c].awaiting].connect.state = "rejected"

\* C7: a re-evaluation of the module while the cache exists binds the module
\* to the existing cache object and leaves its conn and promise unchanged, and
\* whatever the interleaving of evaluations and calls there is one cache
\* object and at most one handshake.
C7_ReloadReusesCache ==
  /\ [][(LoadModule /\ global # 0) =>
          /\ heap' = heap
          /\ global' = global
          /\ modules'[Len(modules')] = global]_vars
  /\ [](Len(heap) <= 1 /\ Len(handshakes) <= 1)

\* C7 witness: the module was evaluated twice, calls were made through both
\* evaluations, and one handshake served them.
C7_Witness ==
  /\ Len(modules) >= 2
  /\ Len(handshakes) = 1
  /\ \E c, d \in Calls :
       /\ calls[c].module = 1 /\ Done(c)
       /\ calls[d].module = 2 /\ Done(d)

\* C8: once the promise in the cache is rejected, no step clears or replaces
\* it and no step starts a handshake; a call issued then suspends on that
\* same promise, and a call that completes then fails with its error.
C8_NoRetry ==
  [][\A r \in Caches : Poisoned(r) =>
       /\ heap'[r].promise = heap[r].promise
       /\ Len(handshakes') = Len(handshakes)
       /\ Len(handshakes) = 1
       /\ \A c \in Calls :
            /\ (~Started(c) /\ calls'[c].pc # "idle") =>
                 /\ calls'[c].pc = "await"
                 /\ calls'[c].awaiting = heap[r].promise
            /\ (~Completed(c) /\ calls'[c].pc \in {"done", "failed"}) =>
                 /\ calls'[c].pc = "failed"
                 /\ calls'[c].result =
                      handshakes[heap[r].promise].derived.value]_vars

\* C8 witness: a call issued after the failure has failed with the error an
\* earlier call failed with.
C8_Witness ==
  \E c, d \in Calls :
    /\ Failed(c) /\ ~calls[c].sawSettled
    /\ Failed(d) /\ calls[d].sawSettled
    /\ calls[c].result = calls[d].result
    /\ Len(handshakes) = 1

\* C9: whenever conn is populated, promise is set, has been fulfilled, and
\* conn is the value it was fulfilled with; so conn is never populated while
\* the operation is in progress.
C9_ConnIsPromiseResult ==
  \A r \in Caches :
    heap[r].conn # Null =>
      /\ heap[r].promise # 0
      /\ handshakes[heap[r].promise].derived.state = "fulfilled"
      /\ heap[r].conn = handshakes[heap[r].promise].derived.value
      /\ heap[r].conn \in Handles

\* C9 witness: conn has been populated.
C9_Witness ==
  \E r \in Caches : heap[r].conn # Null /\ heap[r].promise # 0

\* C10: conn of a new cache object is null, and once conn holds a handle no
\* step changes it.
C10_ConnSingleAssignment ==
  [][/\ \A r \in Caches : heap[r].conn # Null => heap'[r].conn = heap[r].conn
     /\ \A r \in 1..Len(heap') : r > Len(heap) => heap'[r].conn = Null]_vars

\* C10 witness: every call suspended and has stored the result after its
\* await, and conn holds the handle.
C10_Witness ==
  /\ \A c \in Calls : Done(c) /\ Awaited(c)
  /\ \E r \in Caches : heap[r].conn \in Handles

\* C11: once cached.promise is set, no step clears it or makes it refer to
\* another operation, whether that operation is in flight, resolved or failed.
C11_PendingNeverReplaced ==
  [][\A r \in Caches :
       heap[r].promise # 0 => heap'[r].promise = heap[r].promise]_vars

\* C11 witness: the operation has resolved, its result is stored, calls have
\* returned both after suspending and through the early return, and
\* cached.promise still refers to it.
C11_Witness ==
  /\ \A c \in Calls : Done(c)
  /\ \E c \in Calls : ~Awaited(c)
  /\ \E r \in Caches :
       /\ heap[r].promise = 1
       /\ handshakes[1].derived.state = "fulfilled"

\* C12: a getMongoNativeConnection() call changes neither a cache object, nor
\* global.mongoose, nor the handshakes and their promises, nor the frame of
\* any connectToDatabase() call, nor the microtask queue.
C12_NativeNoSideEffects ==
  [][nativeCalls' # nativeCalls =>
       /\ heap' = heap
       /\ global' = global
       /\ modules' = modules
       /\ handshakes' = handshakes
       /\ calls' = calls
       /\ microtasks' = microtasks]_vars

\* C12 witness: getMongoNativeConnection() was called with conn populated and
\* a connectToDatabase() call still suspended.
C12_Witness ==
  /\ nativeCalls >= 1
  /\ nativeRet.kind = "connection"
  /\ \E c \in Calls : calls[c].pc = "await"
  /\ \E r \in Caches : heap[r].conn \in Handles

\* C13: if every handshake settles and queued reactions are run, every
\* connectToDatabase() call that was issued eventually returns or fails.
C13_EveryCallCompletes ==
  \A c \in Calls : Started(c) ~> Completed(c)

\* C13 witness: every call was suspended on the outstanding handshake and has
\* completed by failing.
C13_Witness ==
  \A c \in Calls : Failed(c) /\ ~calls[c].sawSettled

\* C14: once the handshake has failed, conn is null in every state and
\* getMongoNativeConnection() returns null.
C14_FailedStaysAbsent ==
  /\ [](\A r \in Caches : Poisoned(r) => heap[r].conn = Null)
  /\ [][\A r \in Caches : Poisoned(r) =>
          /\ heap'[r].conn = Null
          /\ nativeCalls' # nativeCalls => nativeRet' = Null]_vars

\* C14 witness: the handshake failed, a call failed with its error, and
\* getMongoNativeConnection() has been called as often as the bound allows.
C14_Witness ==
  /\ \E r \in Caches : Poisoned(r) /\ heap[r].conn = Null
  /\ \E c \in Calls : Failed(c)
  /\ nativeCalls = MaxNativeCalls
  /\ nativeRet = Null

====
